---- MODULE Spec2Model ----
(***************************************************************************)
(* Model of the Mergington High School activities API (src/src/app.py):    *)
(* the in-memory activity registry and the HTTP routes that read and       *)
(* mutate it.  Under Spec requests are served one at a time; under         *)
(* SpecThreads signup requests are in flight together, each handled by a   *)
(* worker thread of its own, line by line.                                 *)
(***************************************************************************)
EXTENDS Integers, Sequences, FiniteSets, TLC

VARIABLES
    activities,   \* the module-level dict: activity name -> activity record
    request,      \* the request served last (method, path, parameters)
    response,     \* the response it got
    before,       \* the registry as it was when that request arrived
    threads,      \* worker thread -> where it is in signup_for_activity
    raced         \* has a thread appended to a roster another thread
                  \* changed after the first had checked it?

vars == <<activities, request, response, before, threads, raced>>

----------------------------------------------------------------------------
(* Bounds of the model. *)

\* number of emails, outside the seeded rosters, that clients sign up with
NumFresh == 11

\* number of those emails that requests for the other activity names use
NumOther == 2

\* number of different emails among the signup requests in flight together
NumRacing == 2

----------------------------------------------------------------------------
(* The seeded registry, app.py lines 23-78. *)

Activity(description, schedule, max_participants, participants) ==
    [description |-> description, schedule |-> schedule,
     max_participants |-> max_participants, participants |-> participants]

activities_seed ==
    ("Chess Club" :> Activity(
        "Learn strategies and compete in chess tournaments",
        "Fridays, 3:30 PM - 5:00 PM", 12,
        <<"michael@mergington.edu", "daniel@mergington.edu">>))
 @@ ("Programming Class" :> Activity(
        "Learn programming fundamentals and build software projects",
        "Tuesdays and Thursdays, 3:30 PM - 4:30 PM", 20,
        <<"emma@mergington.edu", "sophia@mergington.edu">>))
 @@ ("Gym Class" :> Activity(
        "Physical education and sports activities",
        "Mondays, Wednesdays, Fridays, 2:00 PM - 3:00 PM", 30,
        <<"john@mergington.edu", "olivia@mergington.edu">>))
 @@ ("Soccer Team" :> Activity(
        "Competitive soccer practices and matches",
        "Monday, Wednesday, Friday, 4:00 PM - 6:00 PM", 22,
        <<"liam@mergington.edu", "noah@mergington.edu">>))
 @@ ("Basketball Club" :> Activity(
        "Pickup games, drills, and intramural tournaments",
        "Tuesdays and Thursdays, 5:00 PM - 7:00 PM", 18,
        <<"ava@mergington.edu", "isabella@mergington.edu">>))
 @@ ("Art Club" :> Activity(
        "Explore visual arts: painting, drawing, and mixed media",
        "Wednesdays, 3:30 PM - 5:00 PM", 16,
        <<"mia@mergington.edu", "charlotte@mergington.edu">>))
 @@ ("Drama Club" :> Activity(
        "Acting workshops, rehearsals, and school productions",
        "Thursdays, 4:00 PM - 6:30 PM", 25,
        <<"harper@mergington.edu", "amelia@mergington.edu">>))
 @@ ("Debate Team" :> Activity(
        "Develop public speaking, research, and argumentation skills",
        "Mondays and Thursdays, 4:00 PM - 5:30 PM", 14,
        <<"elijah@mergington.edu", "lucas@mergington.edu">>))
 @@ ("Science Club" :> Activity(
        "Hands-on experiments, STEM projects, and competitions",
        "Fridays, 3:30 PM - 5:00 PM", 20,
        <<"sophia.s@mergington.edu", "ethan@mergington.edu">>))

----------------------------------------------------------------------------
(* Python helpers used by the handlers. *)

\* `x in lst` on a list
InList(x, lst) == \E i \in 1..Len(lst) : lst[i] = x

\* raise HTTPException(status_code=..., detail=...): FastAPI answers with
\* that status and the body {"detail": detail}
HTTPException(status_code, detail) ==
    [status_code |-> status_code, detail |-> detail, message |-> "",
     location |-> "", body |-> <<>>]

\* a handler returning a dict: 200 with the dict as JSON body
JSONResponse(message, body) ==
    [status_code |-> 200, detail |-> "", message |-> message,
     location |-> "", body |-> body]

\* RedirectResponse(url=...): status 307 and a Location header
RedirectResponse(url) ==
    [status_code |-> 307, detail |-> "", message |-> "",
     location |-> url, body |-> <<>>]

\* the outcome of serving a request: the registry afterwards, the response
Outcome(acts, resp) == [activities |-> acts, response |-> resp]

----------------------------------------------------------------------------
(* The handlers, app.py lines 81-108. *)

root(acts) == Outcome(acts, RedirectResponse("/static/index.html"))

\* lines 86-88 (variant: the seeded mapping returned, not the current one)
get_activities_seeded(acts) ==
    Outcome(acts, JSONResponse("", activities_seed))

\* lines 86-88
get_activities(acts) == Outcome(acts, JSONResponse("", acts))

\* line 95: `activity_name not in activities` negated
ActivityExists(acts, activity_name) == activity_name \in DOMAIN acts

\* line 96 (variant: the wrong status code)
ActivityNotFound_400 == HTTPException(400, "Activity not found")

\* line 96
ActivityNotFound == HTTPException(404, "Activity not found")

\* line 101 (variants: the check left out; only the last entry compared)
AlreadySignedUp_dropped(activity, email) == FALSE

AlreadySignedUp_last_only(activity, email) ==
    /\ Len(activity.participants) > 0
    /\ activity.participants[Len(activity.participants)] = email

\* line 101: `email in activity["participants"]`
AlreadySignedUp(activity, email) == InList(email, activity.participants)

\* line 104 (variants: the check left out; > in place of >=)
ActivityIsFull_dropped(activity) == FALSE

ActivityIsFull_off_by_one(activity) ==
    Len(activity.participants) > activity.max_participants

\* line 104 (variant: full one entry early)
ActivityIsFull_early(activity) ==
    Len(activity.participants) >= activity.max_participants - 1

\* line 104: `len(activity["participants"]) >= activity["max_participants"]`
ActivityIsFull(activity) ==
    Len(activity.participants) >= activity.max_participants

\* line 107 (variant: the email put first)
AddStudent_front(acts, activity_name, email) ==
    [acts EXCEPT ![activity_name].participants = <<email>> \o @]

\* line 107 (variant: every activity holds the same list object)
AddStudent_shared(acts, activity_name, email) ==
    [n \in DOMAIN acts |->
        [acts[n] EXCEPT !.participants = Append(@, email)]]

\* line 107: `activity["participants"].append(email)`; the list is the one
\* held by the registry, so the registry changes
AddStudent(acts, activity_name, email) ==
    [acts EXCEPT ![activity_name].participants = Append(@, email)]

\* line 108
SignedUp(activity_name, email) ==
    JSONResponse("Signed up " \o email \o " for " \o activity_name, <<>>)

\* lines 91-108 (variant: the capacity check before the duplicate check)
signup_for_activity_capacity_first(acts, activity_name, email) ==
    IF ~ActivityExists(acts, activity_name)
    THEN Outcome(acts, ActivityNotFound)
    ELSE LET activity == acts[activity_name] IN
         IF ActivityIsFull(activity)
         THEN Outcome(acts, HTTPException(400, "Activity is full"))
         ELSE IF AlreadySignedUp(activity, email)
         THEN Outcome(acts, HTTPException(400,
                  "Student already signed up for this activity"))
         ELSE Outcome(AddStudent(acts, activity_name, email),
                      SignedUp(activity_name, email))

\* lines 91-108 (variant: an unknown name gets an activity of its own)
signup_for_activity_autocreate(acts, activity_name, email) ==
    IF ~ActivityExists(acts, activity_name)
    THEN Outcome(acts @@ (activity_name :> Activity("", "", 1, <<email>>)),
                 SignedUp(activity_name, email))
    ELSE LET activity == acts[activity_name] IN
         IF AlreadySignedUp(activity, email)
         THEN Outcome(acts, HTTPException(400,
                  "Student already signed up for this activity"))
         ELSE IF ActivityIsFull(activity)
         THEN Outcome(acts, HTTPException(400, "Activity is full"))
         ELSE Outcome(AddStudent(acts, activity_name, email),
                      SignedUp(activity_name, email))

\* lines 91-108 (variant: the email appended before the capacity check)
signup_for_activity_append_first(acts, activity_name, email) ==
    IF ~ActivityExists(acts, activity_name)
    THEN Outcome(acts, ActivityNotFound)
    ELSE LET activity == acts[activity_name] IN
         IF AlreadySignedUp(activity, email)
         THEN Outcome(acts, HTTPException(400,
                  "Student already signed up for this activity"))
         ELSE LET added == AddStudent(acts, activity_name, email) IN
              IF Len(added[activity_name].participants)
                    > activity.max_participants
              THEN Outcome(added, HTTPException(400, "Activity is full"))
              ELSE Outcome(added, SignedUp(activity_name, email))

\* lines 91-108
signup_for_activity(acts, activity_name, email) ==
    IF ~ActivityExists(acts, activity_name)
    THEN Outcome(acts, ActivityNotFound)
    ELSE LET activity == acts[activity_name] IN
         IF AlreadySignedUp(activity, email)
         THEN Outcome(acts, HTTPException(400,
                  "Student already signed up for this activity"))
         ELSE IF ActivityIsFull(activity)
         THEN Outcome(acts, HTTPException(400, "Activity is full"))
         ELSE Outcome(AddStudent(acts, activity_name, email),
                      SignedUp(activity_name, email))

----------------------------------------------------------------------------
(* Routing.  A path is the sequence of its segments ("/" is the empty     *)
(* sequence); the routes are the ones the decorators of app.py register,   *)
(* in that order.  The framework serves the first route whose path and     *)
(* method both match; failing that it answers 405 when some route matches  *)
(* the path alone, and 404 "Not Found" when none does.                     *)

\* variant: a DELETE .../unregister route decorating signup_for_activity
routes_unregister_wired_to_signup ==
    << [path |-> <<>>, methods |-> {"GET"}, endpoint |-> "root"],
       [path |-> <<"activities">>, methods |-> {"GET"},
        endpoint |-> "get_activities"],
       [path |-> <<"activities", "{activity_name}", "signup">>,
        methods |-> {"POST"}, endpoint |-> "signup_for_activity"],
       [path |-> <<"activities", "{activity_name}", "unregister">>,
        methods |-> {"DELETE"}, endpoint |-> "signup_for_activity"] >>

routes ==
    << [path |-> <<>>, methods |-> {"GET"}, endpoint |-> "root"],
       [path |-> <<"activities">>, methods |-> {"GET"},
        endpoint |-> "get_activities"],
       [path |-> <<"activities", "{activity_name}", "signup">>,
        methods |-> {"POST"}, endpoint |-> "signup_for_activity"] >>

\* a route path matches a request path segment by segment; the parameter
\* segment matches any segment
PathMatches(pattern, path) ==
    /\ Len(pattern) = Len(path)
    /\ \A i \in 1..Len(pattern) :
           pattern[i] = "{activity_name}" \/ pattern[i] = path[i]

Dispatch(method, path) ==
    LET full == {i \in 1..Len(routes) :
                     /\ PathMatches(routes[i].path, path)
                     /\ method \in routes[i].methods}
        partial == {i \in 1..Len(routes) : PathMatches(routes[i].path, path)}
    IN  IF full # {}
        THEN routes[CHOOSE i \in full : \A j \in full : i <= j].endpoint
        ELSE IF partial # {} THEN "method_not_allowed"
        ELSE "not_found"

\* the application as a whole: one request in, registry and response out
Serve(acts, method, path, email) ==
    LET endpoint == Dispatch(method, path) IN
    CASE endpoint = "root" -> root(acts)
      [] endpoint = "get_activities" -> get_activities(acts)
      [] endpoint = "signup_for_activity" ->
             signup_for_activity(acts, path[2], email)
      [] endpoint = "method_not_allowed" ->
             Outcome(acts, HTTPException(405, "Method Not Allowed"))
      [] OTHER -> Outcome(acts, HTTPException(404, "Not Found"))

----------------------------------------------------------------------------
(* The requests clients send. *)

\* emails that are not in any seeded roster (tests/test_app.py uses
\* student{i}@mergington.edu)
FreshEmails ==
    << "student0@mergington.edu", "student1@mergington.edu",
       "student2@mergington.edu", "student3@mergington.edu",
       "student4@mergington.edu", "student5@mergington.edu",
       "student6@mergington.edu", "student7@mergington.edu",
       "student8@mergington.edu", "student9@mergington.edu",
       "student10@mergington.edu", "student11@mergington.edu",
       "student12@mergington.edu", "student13@mergington.edu" >>

\* an email that is in a seeded roster (Chess Club's)
SeededEmails == {"michael@mergington.edu"}

\* activity names requests are made with: two of the registry, one unknown
RequestNames == {"Chess Club", "Debate Team", "Nonexistent Activity"}

\* the activity requests fill up to its capacity (the one with the smallest
\* max_participants, as in test_signup_activity_full)
FillName == "Chess Club"

\* how many of the fresh emails requests name an activity with
FreshLimit(activity_name) ==
    IF activity_name = FillName THEN NumFresh ELSE NumOther

\* The handlers only compare emails for equality, so fresh emails are
\* interchangeable: a request for an activity uses the fresh emails in
\* their listed order (the i-th only once the ones before it are on that
\* activity's roster).  Seeded emails are unrestricted.
RequestEmails(activity_name) ==
    SeededEmails \cup
    {FreshEmails[i] : i \in
        {k \in 1..FreshLimit(activity_name) :
            activity_name \in DOMAIN activities =>
                \A j \in 1..(k - 1) :
                    InList(FreshEmails[j],
                           activities[activity_name].participants)}}

\* the worker threads that run the handlers of requests in flight together
Threads == {"t1", "t2", "t3"}

\* a worker thread that has not been given a request
IdleThread ==
    [pc |-> "idle", activity_name |-> "", email |-> "", seen |-> 0,
     status_code |-> 0]

NoRequest == [method |-> "", path |-> <<>>, email |-> ""]

NoResponse == HTTPException(0, "")

Init ==
    /\ activities = activities_seed
    /\ request = NoRequest
    /\ response = NoResponse
    /\ before = activities_seed
    /\ threads = [t \in Threads |-> IdleThread]
    /\ raced = FALSE

\* a request: method, path segments, the email query parameter
Request(method, path, email) ==
    [method |-> method, path |-> path, email |-> email]

\* GET /
GetRoot ==
    LET out == Serve(activities, "GET", <<>>, "") IN
    /\ activities' = out.activities
    /\ response' = out.response
    /\ request' = Request("GET", <<>>, "")
    /\ before' = activities
    /\ UNCHANGED <<threads, raced>>

\* GET /activities
GetActivities ==
    LET out == Serve(activities, "GET", <<"activities">>, "") IN
    /\ activities' = out.activities
    /\ response' = out.response
    /\ request' = Request("GET", <<"activities">>, "")
    /\ before' = activities
    /\ UNCHANGED <<threads, raced>>

\* POST /activities/{activity_name}/signup?email=...
PostSignup ==
    \E activity_name \in RequestNames :
      \E email \in RequestEmails(activity_name) :
        LET path == <<"activities", activity_name, "signup">> IN
        LET out == Serve(activities, "POST", path, email) IN
        /\ activities' = out.activities
        /\ response' = out.response
        /\ request' = Request("POST", path, email)
        /\ before' = activities
        /\ UNCHANGED <<threads, raced>>

\* DELETE /activities/{activity_name}/unregister?email=...
DeleteUnregister ==
    \E activity_name \in RequestNames :
      \E email \in RequestEmails(activity_name) :
        LET path == <<"activities", activity_name, "unregister">> IN
        LET out == Serve(activities, "DELETE", path, email) IN
        /\ activities' = out.activities
        /\ response' = out.response
        /\ request' = Request("DELETE", path, email)
        /\ before' = activities
        /\ UNCHANGED <<threads, raced>>

Next == GetRoot \/ GetActivities \/ PostSignup \/ DeleteUnregister

Spec == Init /\ [][Next]_vars

----------------------------------------------------------------------------
(* Signup requests in flight together.  The handler is a plain `def`, so   *)
(* the framework runs each request on a worker thread; the interpreter     *)
(* may switch threads between any two lines of the handler, and the        *)
(* handler takes no lock.  `activity` (line 99) is a reference to the      *)
(* record in the registry, so every line reads the registry as it then is. *)

\* the fresh emails that are not on the roster of FillName, by their index
OffRoster ==
    {k \in 1..NumFresh :
        ~InList(FreshEmails[k], activities[FillName].participants)}

\* the first n of them
FirstOffRoster(n) ==
    {FreshEmails[k] : k \in
        {k \in OffRoster : Cardinality({j \in OffRoster : j < k}) < n}}

\* a thread that has answered its request
DoneThread(status_code) ==
    [pc |-> "done", activity_name |-> "", email |-> "", seen |-> 0,
     status_code |-> status_code]

\* a signup for FillName served while no other request is in flight
FillSignup ==
    /\ \A t \in Threads : threads[t].pc = "idle"
    /\ \E email \in FirstOffRoster(1) :
        LET path == <<"activities", FillName, "signup">> IN
        LET out == Serve(activities, "POST", path, email) IN
        /\ activities' = out.activities
        /\ response' = out.response
        /\ request' = Request("POST", path, email)
        /\ before' = activities
        /\ UNCHANGED <<threads, raced>>

\* a signup request for FillName arrives and is given to an idle thread
ThreadStart(t) ==
    /\ threads[t].pc = "idle"
    /\ \E email \in FirstOffRoster(NumRacing) :
          threads' = [threads EXCEPT ![t] =
                         [pc |-> "l95", activity_name |-> FillName,
                          email |-> email, seen |-> 0, status_code |-> 0]]
    /\ UNCHANGED <<activities, request, response, before, raced>>

\* lines 95-96
ThreadCheckExists(t) ==
    /\ threads[t].pc = "l95"
    /\ threads' = [threads EXCEPT ![t] =
          IF ~ActivityExists(activities, threads[t].activity_name)
          THEN DoneThread(ActivityNotFound.status_code)
          ELSE [@ EXCEPT !.pc = "l101"]]
    /\ UNCHANGED <<activities, request, response, before, raced>>

\* lines 99-102; seen: the length of the roster the check was made on
ThreadCheckSignedUp(t) ==
    /\ threads[t].pc = "l101"
    /\ LET activity == activities[threads[t].activity_name] IN
       threads' = [threads EXCEPT ![t] =
          IF AlreadySignedUp(activity, threads[t].email)
          THEN DoneThread(400)
          ELSE [@ EXCEPT !.pc = "l104",
                         !.seen = Len(activity.participants)]]
    /\ UNCHANGED <<activities, request, response, before, raced>>

\* lines 104-105
ThreadCheckFull(t) ==
    /\ threads[t].pc = "l104"
    /\ LET activity == activities[threads[t].activity_name] IN
       threads' = [threads EXCEPT ![t] =
          IF ActivityIsFull(activity)
          THEN DoneThread(400)
          ELSE [@ EXCEPT !.pc = "l107"]]
    /\ UNCHANGED <<activities, request, response, before, raced>>

\* lines 107-108
ThreadAppend(t) ==
    /\ threads[t].pc = "l107"
    /\ activities' = AddStudent(activities, threads[t].activity_name,
                                threads[t].email)
    /\ raced' = (raced \/
                 Len(activities[threads[t].activity_name].participants)
                     # threads[t].seen)
    /\ threads' = [threads EXCEPT ![t] = DoneThread(200)]
    /\ UNCHANGED <<request, response, before>>

NextThreads ==
    \/ FillSignup
    \/ \E t \in Threads :
          \/ ThreadStart(t)
          \/ ThreadCheckExists(t)
          \/ ThreadCheckSignedUp(t)
          \/ ThreadCheckFull(t)
          \/ ThreadAppend(t)

SpecThreads == Init /\ [][NextThreads]_vars

----------------------------------------------------------------------------
(* What the last request was, read from the history variables. *)

IsSignup ==
    /\ request.method = "POST"
    /\ Len(request.path) = 3
    /\ request.path[1] = "activities"
    /\ request.path[3] = "signup"

IsUnregister ==
    /\ request.method = "DELETE"
    /\ Len(request.path) = 3
    /\ request.path[1] = "activities"
    /\ request.path[3] = "unregister"

IsList == request.method = "GET" /\ request.path = <<"activities">>

\* the activity name and the roster the last request was about
ReqName == request.path[2]

RosterBefore == before[ReqName].participants

RosterAfter == activities[ReqName].participants

AlreadySignedUpDetail == "Student already signed up for this activity"

\* every email a request can carry
AllEmails == SeededEmails \cup {FreshEmails[i] : i \in 1..NumFresh}

\* the POST and DELETE requests for an activity name, as operators
SignupOf(acts, activity_name, email) ==
    Serve(acts, "POST", <<"activities", activity_name, "signup">>, email)

UnregisterOf(acts, activity_name, email) ==
    Serve(acts, "DELETE", <<"activities", activity_name, "unregister">>,
          email)

----------------------------------------------------------------------------
(* C1: in every reachable state every activity has at most               *)
(* max_participants participants.                                         *)
C1_Capacity ==
    \A n \in DOMAIN activities :
        Len(activities[n].participants) <= activities[n].max_participants

\* an activity has been filled to its capacity and a further signup tried
C1_Witness ==
    /\ IsSignup
    /\ ReqName \in DOMAIN activities
    /\ Len(RosterAfter) = activities[ReqName].max_participants
    /\ response.detail = "Activity is full"

(* C2: in every reachable state no roster holds the same email twice.     *)
C2_Unique ==
    \A n \in DOMAIN activities :
        \A i, j \in 1..Len(activities[n].participants) :
            i # j => activities[n].participants[i]
                         # activities[n].participants[j]

\* a roster that grew by signups, on which a second signup of one of its
\* emails was then tried
C2_Witness ==
    /\ IsSignup
    /\ ReqName \in DOMAIN activities
    /\ Len(RosterAfter) > Len(activities_seed[ReqName].participants)
    /\ InList(request.email, RosterBefore)

(* C3: a signup with an email that is already on the activity's roster    *)
(* gets 400 "already signed up" and leaves the whole registry as it was;  *)
(* this holds of the request just served and of every (activity, email    *)
(* on its roster) of the current registry.                                *)
C3_DuplicateRejected ==
    /\ (IsSignup /\ ReqName \in DOMAIN before
            /\ InList(request.email, RosterBefore))
        => /\ response.status_code = 400
           /\ response.detail = AlreadySignedUpDetail
           /\ activities = before
    /\ \A n \in DOMAIN activities :
         \A i \in 1..Len(activities[n].participants) :
            SignupOf(activities, n, activities[n].participants[i])
                = Outcome(activities,
                          HTTPException(400, AlreadySignedUpDetail))

\* a duplicate signup has just been served
C3_Witness ==
    /\ IsSignup
    /\ ReqName \in DOMAIN before
    /\ InList(request.email, RosterBefore)
    /\ response.status_code = 400

(* C4: a signup to an activity whose roster has max_participants entries, *)
(* with an email not on it, gets 400 "Activity is full" and leaves the    *)
(* registry as it was.                                                    *)
C4_FullRejected ==
    (IsSignup /\ ReqName \in DOMAIN before
        /\ Len(RosterBefore) = before[ReqName].max_participants
        /\ ~InList(request.email, RosterBefore))
    => /\ response.status_code = 400
       /\ response.detail = "Activity is full"
       /\ activities = before

\* a new email has just been refused by a full activity
C4_Witness ==
    /\ IsSignup
    /\ ReqName \in DOMAIN before
    /\ Len(RosterBefore) = before[ReqName].max_participants
    /\ ~InList(request.email, RosterBefore)
    /\ response.status_code = 400

(* C5: a signup to a name that is no key of the registry gets 404         *)
(* "Activity not found", creates no activity and changes no roster; this  *)
(* holds of the request just served and, in the current registry, of the  *)
(* unknown request names with every email.                                *)
C5_UnknownRejected ==
    /\ (IsSignup /\ ReqName \notin DOMAIN before)
        => /\ response.status_code = 404
           /\ response.detail = "Activity not found"
           /\ DOMAIN activities = DOMAIN before
           /\ activities = before
    /\ \A n \in RequestNames \ DOMAIN activities :
         \A e \in AllEmails :
            SignupOf(activities, n, e)
                = Outcome(activities,
                          HTTPException(404, "Activity not found"))

\* a signup to an unknown activity has just been served, in a registry
\* that earlier signups have changed
C5_Witness ==
    /\ IsSignup
    /\ ReqName \notin DOMAIN before
    /\ response.status_code = 404
    /\ before # activities_seed

(* C6: a successful signup leaves the activity's roster equal to the      *)
(* roster before with the email appended; so the activity that requests   *)
(* fill holds its seeded roster followed by the new emails in the order   *)
(* they were requested, and a list request shows the registry as it is.   *)
C6_Appends ==
    /\ (IsSignup /\ response.status_code = 200)
        => /\ ReqName \in DOMAIN before
           /\ RosterAfter = Append(RosterBefore, request.email)
           /\ response.message
                = "Signed up " \o request.email \o " for " \o ReqName
    /\ LET seeded == activities_seed[FillName].participants
           roster == activities[FillName].participants
       IN  /\ Len(roster) >= Len(seeded)
           /\ \A i \in 1..Len(roster) :
                 roster[i] = IF i <= Len(seeded) THEN seeded[i]
                             ELSE FreshEmails[i - Len(seeded)]
    /\ IsList => (response.status_code = 200 /\ response.body = activities)

\* the third successful signup in a row to one activity has been served
C6_Witness ==
    /\ IsSignup
    /\ response.status_code = 200
    /\ Len(RosterAfter) >= Len(activities_seed[ReqName].participants) + 3

\* a list without the entries equal to x, the others in their order
Without(lst, x) == SelectSeq(lst, LAMBDA y : y # x)

(* C7: an unregister of an email that is on the roster of an existing     *)
(* activity gets 200, and afterwards the roster is the roster before      *)
(* without that email, the other participants in their previous order.    *)
C7_UnregisterRemoves ==
    (IsUnregister /\ ReqName \in DOMAIN before
        /\ InList(request.email, RosterBefore))
    => /\ response.status_code = 200
       /\ ~InList(request.email, RosterAfter)
       /\ RosterAfter = Without(RosterBefore, request.email)

C9_RoundTrip ==
    \A n \in DOMAIN activities :
      \A e \in AllEmails :
        (/\ Len(activities[n].participants) < activities[n].max_participants
         /\ ~InList(e, activities[n].participants))
        => LET first == SignupOf(activities, n, e)
               undo == UnregisterOf(first.activities, n, e)
               again == SignupOf(undo.activities, n, e)
           IN  /\ first.response.status_code = 200
               /\ undo.response.status_code = 200
               /\ again.response.status_code = 200
               /\ again.activities = first.activities
               /\ undo.activities = activities

(* C10: signup checks existence, then duplicate, then capacity: an        *)
(* unknown activity gives 404 whatever the email; an email already on     *)
(* the roster of a full activity gives "already signed up", not           *)
(* "Activity is full"; "Activity is full" is only ever the answer for an  *)
(* email that is not on the roster.                                       *)
C10_CheckOrder ==
    IsSignup =>
        /\ ReqName \notin DOMAIN before
            => /\ response.status_code = 404
               /\ response.detail = "Activity not found"
        /\ (/\ ReqName \in DOMAIN before
            /\ Len(RosterBefore) >= before[ReqName].max_participants
            /\ InList(request.email, RosterBefore))
            => /\ response.status_code = 400
               /\ response.detail = AlreadySignedUpDetail
        /\ response.detail = "Activity is full"
            => /\ ReqName \in DOMAIN before
               /\ ~InList(request.email, RosterBefore)

\* an email on the roster of a full activity has just been signed up again
C10_Witness ==
    /\ IsSignup
    /\ ReqName \in DOMAIN before
    /\ Len(RosterBefore) = before[ReqName].max_participants
    /\ InList(request.email, RosterBefore)
    /\ response.detail = AlreadySignedUpDetail

----------------------------------------------------------------------------
(* C11: in every reachable state the registry has exactly the seeded      *)
(* activity names, and every activity has its seeded description,         *)
(* schedule and max_participants; only participants differ from the seed. *)
C11_CatalogFixed ==
    /\ DOMAIN activities = DOMAIN activities_seed
    /\ \A n \in DOMAIN activities_seed :
          /\ activities[n].description = activities_seed[n].description
          /\ activities[n].schedule = activities_seed[n].schedule
          /\ activities[n].max_participants
                = activities_seed[n].max_participants
          /\ DOMAIN activities[n] = DOMAIN activities_seed[n]

\* rosters have changed, and a request with an unknown activity name has
\* just been served
C11_Witness ==
    /\ Len(request.path) = 3
    /\ ReqName \notin DOMAIN activities_seed
    /\ request.method = "POST"
    /\ \E n \in DOMAIN activities_seed :
          activities[n].participants # activities_seed[n].participants

\* the four fields of an activity record
ActivityFields == {"description", "schedule", "max_participants",
                   "participants"}

(* C12: a list request always gets 200 with the whole current registry    *)
(* as its body (every activity, its four fields, its participants in      *)
(* order, all earlier successful signups included) and leaves the         *)
(* registry as it was; this holds of the request just served and of a     *)
(* list request made in the current state; on the seeded registry the     *)
(* body has exactly the 9 seeded activities.                              *)
C12_ListComplete ==
    /\ IsList
        => /\ response.status_code = 200
           /\ response.body = before
           /\ activities = before
           /\ \A n \in DOMAIN response.body :
                 DOMAIN response.body[n] = ActivityFields
    /\ LET out == Serve(activities, "GET", <<"activities">>, "") IN
          /\ out.response.status_code = 200
          /\ out.response.body = activities
          /\ out.activities = activities
    /\ LET first == Serve(activities_seed, "GET", <<"activities">>, "") IN
          /\ first.response.body = activities_seed
          /\ Cardinality(DOMAIN first.response.body) = 9

\* a list request has just been served after successful signups, and its
\* body shows them
C12_Witness ==
    /\ IsList
    /\ response.status_code = 200
    /\ Len(response.body[FillName].participants)
          >= Len(activities_seed[FillName].participants) + 2

\* the activities whose record differs between two registries
Changed(acts1, acts2) ==
    {n \in DOMAIN acts1 \cup DOMAIN acts2 :
        \/ n \notin DOMAIN acts1
        \/ n \notin DOMAIN acts2
        \/ acts1[n] # acts2[n]}

\* one entry was added to or removed from lst1 to give lst2
OneEntryApart(lst1, lst2) ==
    \/ /\ Len(lst2) = Len(lst1) + 1
       /\ \E i \in 1..Len(lst2) :
             lst1 = [j \in 1..Len(lst1) |->
                        IF j < i THEN lst2[j] ELSE lst2[j + 1]]
    \/ /\ Len(lst1) = Len(lst2) + 1
       /\ \E i \in 1..Len(lst1) :
             lst2 = [j \in 1..Len(lst2) |->
                        IF j < i THEN lst1[j] ELSE lst1[j + 1]]

(* C14: every request changes the registry in at most one step: a        *)
(* successful signup or unregister changes the roster of exactly one      *)
(* activity by exactly one entry, every other request (a failed one, a    *)
(* list, the root redirect) leaves the registry as it was; so the         *)
(* registry a list request shows is always the registry after a whole     *)
(* number of requests.                                                    *)
C14_SingleMutation ==
    /\ ((IsSignup \/ IsUnregister) /\ response.status_code = 200)
        => /\ Changed(before, activities) = {ReqName}
           /\ ReqName \in DOMAIN before
           /\ ReqName \in DOMAIN activities
           /\ OneEntryApart(RosterBefore, RosterAfter)
           /\ [activities[ReqName] EXCEPT !.participants = RosterBefore]
                 = before[ReqName]
    /\ ~((IsSignup \/ IsUnregister) /\ response.status_code = 200)
        => activities = before
    /\ IsList => response.body = activities

\* a signup has just been refused by a full activity: a failure on the
\* path that comes closest to the append
C14_Witness ==
    /\ IsSignup
    /\ response.status_code = 400
    /\ response.detail = "Activity is full"
    /\ activities = before

(* C15: a signup succeeds exactly when the name is a key of the registry, *)
(* the email is not on that roster and the roster is shorter than         *)
(* max_participants, and then the roster grows by exactly 1; this holds   *)
(* of the request just served and of every request name and email in the  *)
(* current registry.                                                      *)
C15_SucceedsIff ==
    /\ IsSignup
        => /\ response.status_code = 200
              <=> /\ ReqName \in DOMAIN before
                  /\ ~InList(request.email, RosterBefore)
                  /\ Len(RosterBefore) < before[ReqName].max_participants
           /\ response.status_code = 200
              => Len(RosterAfter) = Len(RosterBefore) + 1
    /\ \A n \in RequestNames \cup DOMAIN activities :
         \A e \in AllEmails :
            LET out == SignupOf(activities, n, e) IN
            /\ out.response.status_code = 200
               <=> /\ n \in DOMAIN activities
                   /\ ~InList(e, activities[n].participants)
                   /\ Len(activities[n].participants)
                         < activities[n].max_participants
            /\ out.response.status_code = 200
               => Len(out.activities[n].participants)
                     = Len(activities[n].participants) + 1

\* a signup has just taken the last free place of an activity
C15_Witness ==
    /\ IsSignup
    /\ response.status_code = 200
    /\ Len(RosterAfter) = activities[ReqName].max_participants
    /\ Len(RosterBefore) = Len(RosterAfter) - 1

(* C16: a signup, successful or not, leaves the participants of every     *)
(* activity other than the named one as they were; an email on the        *)
(* roster of one activity is accepted by every other activity that is     *)
(* not full and does not have it.                                         *)
C16_Local ==
    /\ IsSignup
        => \A b \in DOMAIN before :
              b # ReqName => /\ b \in DOMAIN activities
                             /\ activities[b] = before[b]
    /\ \A a \in RequestNames \cup DOMAIN activities :
         \A e \in AllEmails :
            LET out == SignupOf(activities, a, e) IN
            \A b \in DOMAIN activities :
               b # a => out.activities[b] = activities[b]
    /\ \A a, b \in DOMAIN activities :
         \A i \in 1..Len(activities[a].participants) :
            LET e == activities[a].participants[i] IN
            (/\ a # b
             /\ ~InList(e, activities[b].participants)
             /\ Len(activities[b].participants)
                   < activities[b].max_participants)
            => SignupOf(activities, b, e).response.status_code = 200

\* an email on the roster of one activity has just been signed up to
\* another one
C16_Witness ==
    /\ IsSignup
    /\ response.status_code = 200
    /\ \E a \in DOMAIN activities :
          /\ a # ReqName
          /\ InList(request.email, activities[a].participants)
    /\ InList(request.email, RosterAfter)

----------------------------------------------------------------------------
\* the roster that the requests in flight together sign up to
RacedRoster == activities[FillName].participants

Overrun == Len(RacedRoster) > activities[FillName].max_participants

Duplicated ==
    \E i, j \in 1..Len(RacedRoster) : i < j /\ RacedRoster[i] = RacedRoster[j]

(* C13: with signup requests for one activity in flight together, each    *)
(* on its own thread with the lines of the handler interleaving, the      *)
(* roster can get longer than max_participants and can hold an email      *)
(* twice (the witness state); it gets so only by a thread appending to a  *)
(* roster that another thread changed after the first had checked it.     *)
C13_OnlyByRace == (Overrun \/ Duplicated) => raced

\* three requests met at the last free place, two of them with the same
\* email: the roster is over its capacity, holds that email twice, and two
\* different emails were appended from the last free place on
C13_Witness ==
    /\ Overrun
    /\ Duplicated
    /\ \E i, j \in activities[FillName].max_participants..Len(RacedRoster) :
          RacedRoster[i] # RacedRoster[j]
    /\ \A t \in Threads : threads[t].pc = "done" /\ threads[t].status_code = 200

====
